---- MODULE Spec2Model ----
(***************************************************************************)
(* Model of the s3-backup "sync" command (s3_backup/cli.py, s3.py,         *)
(* utils.py).  Strings are sequences of one-character strings so that      *)
(* prefix tests, glob matching and the str()/isdigit()/int() round trip of *)
(* the mtime metadata are computed, not assumed.                           *)
(***************************************************************************)
EXTENDS Integers, Sequences, FiniteSets, TLC

\* ---------------------------------------------------------------- bounds
MaxLocal == 2       \* files in the local directory
MaxRemote == 2      \* objects in the bucket before the first run
MaxRuns == 2        \* consecutive invocations of main (two-run specification)

\* ------------------------------------------------------- program constants
EXIT_OK == 0
EXIT_ERROR == 2

\* ------------------------------------------------------------ input sets
None == {}                          \* Python None: an Optional is a set of at most one value
Some(x) == {x}
The(o) == CHOOSE x \in o : TRUE
SLASH == "/"
Digits == {"0", "1", "2", "3", "4", "5", "6", "7", "8", "9"}
DigitSeq == <<"0", "1", "2", "3", "4", "5", "6", "7", "8", "9">>

REL_A == <<"a">>
REL_LOG == <<"c", ".", "l">>
\* what the scan can find on disk: (rel, size, int(st_mtime))
FileItem ==
  [rel : {REL_A}, size : {1, 2}, mtime : {-1, 5}] \cup
  [rel : {REL_LOG}, size : {1}, mtime : {5}]
Prefixes == { <<>>, <<"b">> }
ExcludeLists == { <<>>, << <<"*", ".", "l">> >> }
Strategies == {"size-mtime", "size-only"}
\* bucket contents: keys under prefix "b", a sibling prefix "b2", a root key
RemoteKeyUniverse == { <<"a">>, <<"b", "/", "a">>, <<"b", "/", "c", ".", "l">>,
                       <<"b", "2", "/", "a">> }
\* Metadata.get("mtime"): None or a string
MTIME_5 == Some(<<"5">>)
MTIME_05 == Some(<<"0", "5">>)
MTIME_NEG == Some(<<"-", "1">>)
\* objects other writers may have left in the bucket
RemoteObjs ==
  { [size |-> 1, meta |-> None], [size |-> 1, meta |-> MTIME_5],
    [size |-> 2, meta |-> MTIME_5], [size |-> 1, meta |-> MTIME_05],
    [size |-> 1, meta |-> MTIME_NEG] }

\* byte order of the characters used (S3 lists keys in UTF-8 binary order)
CharCode(c) ==
  CASE c = "*" -> 42 [] c = "-" -> 45 [] c = "." -> 46 [] c = "/" -> 47
    [] c = "0" -> 48 [] c = "1" -> 49 [] c = "2" -> 50 [] c = "5" -> 53
    [] c = "?" -> 63 [] c = "a" -> 97 [] c = "b" -> 98 [] c = "c" -> 99
    [] c = "l" -> 108 [] OTHER -> 120

\* ------------------------------------------------------- string helpers
StartsWith(s, p) == Len(p) <= Len(s) /\ SubSeq(s, 1, Len(p)) = p

RECURSIVE LStrip(_)
LStrip(s) == IF s # <<>> /\ Head(s) = SLASH THEN LStrip(Tail(s)) ELSE s

RECURSIVE RStrip(_)
RStrip(s) ==
  IF s # <<>> /\ s[Len(s)] = SLASH THEN RStrip(SubSeq(s, 1, Len(s) - 1)) ELSE s

\* str.strip("/")
Strip(s) == RStrip(LStrip(s))

RECURSIVE StrNat(_)
StrNat(n) ==
  IF n < 10 THEN <<DigitSeq[n + 1]>>
  ELSE StrNat(n \div 10) \o <<DigitSeq[(n % 10) + 1]>>

\* str(mtime_epoch)
Str(n) == IF n < 0 THEN <<"-">> \o StrNat(-n) ELSE StrNat(n)

\* str.isdigit() on ASCII text
IsDigit(s) == s # <<>> /\ \A i \in 1..Len(s) : s[i] \in Digits

DigitVal(c) == CHOOSE d \in 0..9 : DigitSeq[d + 1] = c

RECURSIVE ParseInt(_)
\* int(s) for a string of ASCII digits
ParseInt(s) ==
  IF s = <<>> THEN 0
  ELSE 10 * ParseInt(SubSeq(s, 1, Len(s) - 1)) + DigitVal(s[Len(s)])

RECURSIVE fnmatch(_, _)
\* fnmatch.fnmatch for patterns of literals, "*" and "?"; "*" also matches "/"
fnmatch(name, pat) ==
  IF pat = <<>> THEN name = <<>>
  ELSE IF Head(pat) = "*"
    THEN fnmatch(name, Tail(pat)) \/ (name # <<>> /\ fnmatch(Tail(name), pat))
  ELSE IF Head(pat) = "?"
    THEN name # <<>> /\ fnmatch(Tail(name), Tail(pat))
  ELSE name # <<>> /\ Head(name) = Head(pat) /\ fnmatch(Tail(name), Tail(pat))

is_excluded(rel_posix, excl) ==
  \E i \in 1..Len(excl) : fnmatch(rel_posix, excl[i])

join_s3_key(pfx, rel_posix) ==
  LET p == Strip(pfx)
  IN  IF p = <<>> THEN rel_posix ELSE p \o <<SLASH>> \o rel_posix

\* lexicographic order on keys by character code
RECURSIVE KeyLess(_, _)
KeyLess(s, t) ==
  IF t = <<>> THEN FALSE
  ELSE IF s = <<>> THEN TRUE
  ELSE IF Head(s) # Head(t) THEN CharCode(Head(s)) < CharCode(Head(t))
  ELSE KeyLess(Tail(s), Tail(t))

RECURSIVE SortKeys(_)
SortKeys(S) ==
  IF S = {} THEN <<>>
  ELSE LET m == CHOOSE x \in S : \A y \in S \ {x} : KeyLess(x, y)
       IN  <<m>> \o SortKeys(S \ {m})

\* ------------------------------------------------------------- the state
VARIABLES
  local_files,    \* the directory: sequence of FileItem in rglob order
  excludes,       \* args.exclude
  prefix,         \* prefix returned by parse_s3_uri
  strategy,       \* args.strategy
  delete,         \* args.delete
  dry_run,        \* args.dry_run
  remote,         \* the bucket: a function from the keys present to their objects
  remote0,        \* the bucket as it was when the current run started
  pc,             \* position of main: "scan", "delete", "done", "aborted"
  idx,            \* next entry of local_files the scan visits
  local_key_set,
  actions,
  uploaded,
  skipped,
  deleted,
  remote_keys,    \* result of list_objects_keys
  kidx,           \* next entry of remote_keys the delete loop visits
  log,            \* remote calls issued by the current run, in order
  exit_code,      \* return value of main, None while running
  report,         \* the printed summary, None if nothing was printed
  run,            \* number of the current invocation
  prev            \* outcome of the previous invocation, None for the first

config == <<local_files, excludes, prefix, strategy, delete>>
progress == <<pc, idx, local_key_set, actions, uploaded, skipped, deleted,
              remote_keys, kidx, log, exit_code, report>>
vars == <<config, dry_run, remote, remote0, progress, run, prev>>

RECURSIVE SeqsUpTo(_, _)
\* sequences of at most n elements of S without repetition
SeqsUpTo(S, n) ==
  IF n = 0 THEN { <<>> }
  ELSE LET shorter == SeqsUpTo(S, n - 1)
       IN  shorter \cup
           { Append(q, x) : q \in { r \in shorter : Len(r) = n - 1 }, x \in S }

DistinctRel(fs) == \A i, j \in 1..Len(fs) : i # j => fs[i].rel # fs[j].rel

LocalDirs == { fs \in SeqsUpTo(FileItem, MaxLocal) : DistinctRel(fs) }

Buckets ==
  UNION { [K -> RemoteObjs] :
            K \in { J \in SUBSET RemoteKeyUniverse : Cardinality(J) <= MaxRemote } }

\* ------------------------------------------------- the remote store (s3.py)
head_object_etag_size_mtime(store, key) ==
  IF key \notin DOMAIN store THEN None
  ELSE LET mtime == store[key].meta
           mtime_epoch == IF mtime # None /\ The(mtime) # <<>> /\ IsDigit(The(mtime))
                          THEN Some(ParseInt(The(mtime))) ELSE None
       IN  Some([size |-> store[key].size, mtime |-> mtime_epoch])

list_objects_keys(store, pfx) ==
  SortKeys({ k \in DOMAIN store : StartsWith(k, pfx) })

\* client.upload_file with ExtraArgs Metadata mtime
PutObject(store, key, f) ==
  [k \in (DOMAIN store) \cup {key} |->
     IF k = key THEN [size |-> f.size, meta |-> Some(Str(f.mtime))] ELSE store[k]]

\* client.delete_object
RemoveObject(store, key) ==
  [k \in (DOMAIN store) \ {key} |-> store[k]]

upload_record(key, f, dry) ==
  [action |-> "upload", key |-> key, local |-> f.rel, dry_run |-> dry]

delete_record(key, dry) ==
  [action |-> "delete", key |-> key, dry_run |-> dry]

upload_file_always(store, key, f, dry) == PutObject(store, key, f)

\* the store after upload_file(client, bucket, key, path, mtime, dry_run)
upload_file(store, key, f, dry) ==
  IF dry THEN store ELSE PutObject(store, key, f)

delete_object_keeps(store, key, dry) == store

\* the store after delete_object(client, bucket, key, dry_run)
delete_object(store, key, dry) ==
  IF dry THEN store ELSE RemoveObject(store, key)

LogEntry(op, key, res) == [op |-> op, key |-> key, res |-> res]

\* --------------------------------------------------- the planner (cli.py)
should_upload_anystrategy(strat, f, r) ==
  (r.size # f.size) \/ (r.mtime = None) \/ (r.mtime # Some(f.mtime))

should_upload(strat, f, r) ==
  IF strat = "size-only" THEN r.size # f.size
  ELSE (r.size # f.size) \/ (r.mtime = None) \/ (r.mtime # Some(f.mtime))

\* remote is None, or should_upload after the comparison
NeedsUpload(strat, f, remote_state) ==
  IF remote_state = None THEN TRUE ELSE should_upload(strat, f, The(remote_state))

ListPrefix_noslash(pfx) == pfx

ListPrefix(pfx) == IF pfx # <<>> THEN pfx \o <<SLASH>> ELSE <<>>

ShouldDelete_all(k, lks) == TRUE

ShouldDelete(k, lks) == k \notin lks

AddLocalKey_forgets(lks, key) == lks

AddLocalKey(lks, key) == lks \cup {key}

AppendAction_front(acts, a) == <<a>> \o acts

AppendAction(acts, a) == Append(acts, a)

Summary ==
  [cmd |-> "sync", prefix |-> prefix, dry_run |-> dry_run,
   uploaded |-> uploaded, skipped |-> skipped, deleted |-> deleted,
   total_actions |-> Len(actions)]

Init ==
  /\ local_files \in LocalDirs
  /\ excludes \in ExcludeLists
  /\ prefix \in Prefixes
  /\ strategy \in Strategies
  /\ delete \in BOOLEAN
  /\ dry_run \in BOOLEAN
  /\ remote \in Buckets
  /\ remote0 = remote
  /\ pc = "scan"
  /\ idx = 1
  /\ local_key_set = {}
  /\ actions = <<>>
  /\ uploaded = 0
  /\ skipped = 0
  /\ deleted = 0
  /\ remote_keys = <<>>
  /\ kidx = 1
  /\ log = <<>>
  /\ exit_code = None
  /\ report = None
  /\ run = 1
  /\ prev = None

\* iter_files skips a file matching an exclusion pattern
SkipExcluded ==
  /\ pc = "scan"
  /\ idx <= Len(local_files)
  /\ is_excluded(local_files[idx].rel, excludes)
  /\ idx' = idx + 1
  /\ UNCHANGED <<config, dry_run, remote, remote0, pc, local_key_set, actions,
                 uploaded, skipped, deleted, remote_keys, kidx, log,
                 exit_code, report, run, prev>>

\* one iteration of the for loop over iter_files
SyncFile ==
  /\ pc = "scan"
  /\ idx <= Len(local_files)
  /\ ~is_excluded(local_files[idx].rel, excludes)
  /\ LET f == local_files[idx]
         key == join_s3_key(prefix, f.rel)
         r == head_object_etag_size_mtime(remote, key)
         headlog == Append(log, LogEntry("head", key,
                                         IF r = None THEN "notfound" ELSE "ok"))
     IN  /\ local_key_set' = AddLocalKey(local_key_set, key)
         /\ IF NeedsUpload(strategy, f, r)
              THEN /\ remote' = upload_file(remote, key, f, dry_run)
                   /\ log' = IF dry_run THEN headlog
                             ELSE Append(headlog, LogEntry("put", key, "ok"))
                   /\ actions' = AppendAction(actions, upload_record(key, f, dry_run))
                   /\ uploaded' = uploaded + 1
                   /\ skipped' = skipped
              ELSE /\ remote' = remote
                   /\ log' = headlog
                   /\ actions' = actions
                   /\ uploaded' = uploaded
                   /\ skipped' = skipped + 1
  /\ idx' = idx + 1
  /\ UNCHANGED <<config, dry_run, remote0, pc, deleted, remote_keys, kidx,
                 exit_code, report, run, prev>>

\* end of the scan: list the prefix when --delete is given
EndScan ==
  /\ pc = "scan"
  /\ idx > Len(local_files)
  /\ pc' = "delete"
  /\ IF delete
       THEN /\ remote_keys' = list_objects_keys(remote, ListPrefix(prefix))
            /\ log' = Append(log, LogEntry("list", ListPrefix(prefix), "ok"))
       ELSE /\ remote_keys' = <<>>
            /\ log' = log
  /\ UNCHANGED <<config, dry_run, remote, remote0, idx, local_key_set, actions,
                 uploaded, skipped, deleted, kidx, exit_code, report, run, prev>>

\* one iteration of the for loop over remote_keys
DeleteKey ==
  /\ pc = "delete"
  /\ kidx <= Len(remote_keys)
  /\ LET k == remote_keys[kidx]
     IN  IF ShouldDelete(k, local_key_set)
           THEN /\ remote' = delete_object(remote, k, dry_run)
                /\ log' = IF dry_run THEN log
                          ELSE Append(log, LogEntry("delete", k, "ok"))
                /\ actions' = AppendAction(actions, delete_record(k, dry_run))
                /\ deleted' = deleted + 1
           ELSE UNCHANGED <<remote, log, actions, deleted>>
  /\ kidx' = kidx + 1
  /\ UNCHANGED <<config, dry_run, remote0, pc, idx, local_key_set, uploaded,
                 skipped, remote_keys, exit_code, report, run, prev>>

\* build and print the summary, return EXIT_OK
Finish ==
  /\ pc = "delete"
  /\ kidx > Len(remote_keys)
  /\ pc' = "done"
  /\ report' = Some(Summary)
  /\ exit_code' = Some(EXIT_OK)
  /\ UNCHANGED <<config, dry_run, remote, remote0, idx, local_key_set, actions,
                 uploaded, skipped, deleted, remote_keys, kidx, log, run, prev>>

Next == SkipExcluded \/ SyncFile \/ EndScan \/ DeleteKey \/ Finish

Spec == Init /\ [][Next]_vars

\* ------------------------------------------------ failing remote calls
Abort_reports ==
  /\ pc' = "aborted"
  /\ exit_code' = Some(EXIT_OK)
  /\ report' = Some(Summary)

\* except Exception: logging.error, return EXIT_ERROR
Abort ==
  /\ pc' = "aborted"
  /\ exit_code' = Some(EXIT_ERROR)
  /\ report' = report

\* head_object raises a ClientError whose code is not a not-found code
HeadFails ==
  /\ pc = "scan"
  /\ idx <= Len(local_files)
  /\ ~is_excluded(local_files[idx].rel, excludes)
  /\ LET key == join_s3_key(prefix, local_files[idx].rel)
     IN  /\ local_key_set' = AddLocalKey(local_key_set, key)
         /\ log' = Append(log, LogEntry("head", key, "error"))
  /\ Abort
  /\ UNCHANGED <<config, dry_run, remote, remote0, idx, actions, uploaded,
                 skipped, deleted, remote_keys, kidx, run, prev>>

\* client.upload_file raises; the object may or may not have been written
PutFails ==
  /\ pc = "scan"
  /\ idx <= Len(local_files)
  /\ ~is_excluded(local_files[idx].rel, excludes)
  /\ ~dry_run
  /\ LET f == local_files[idx]
         key == join_s3_key(prefix, f.rel)
         r == head_object_etag_size_mtime(remote, key)
     IN  /\ NeedsUpload(strategy, f, r)
         /\ local_key_set' = AddLocalKey(local_key_set, key)
         /\ log' = log \o << LogEntry("head", key,
                                      IF r = None THEN "notfound" ELSE "ok"),
                              LogEntry("put", key, "error") >>
         /\ remote' \in {remote, PutObject(remote, key, f)}
  /\ Abort
  /\ UNCHANGED <<config, dry_run, remote0, idx, actions, uploaded, skipped,
                 deleted, remote_keys, kidx, run, prev>>

\* the list_objects_v2 paginator raises
ListFails ==
  /\ pc = "scan"
  /\ idx > Len(local_files)
  /\ delete
  /\ log' = Append(log, LogEntry("list", ListPrefix(prefix), "error"))
  /\ Abort
  /\ UNCHANGED <<config, dry_run, remote, remote0, idx, local_key_set, actions,
                 uploaded, skipped, deleted, remote_keys, kidx, run, prev>>

\* client.delete_object raises; the object may or may not have been removed
DeleteFails ==
  /\ pc = "delete"
  /\ kidx <= Len(remote_keys)
  /\ ~dry_run
  /\ LET k == remote_keys[kidx]
     IN  /\ ShouldDelete(k, local_key_set)
         /\ log' = Append(log, LogEntry("delete", k, "error"))
         /\ remote' \in {remote, RemoveObject(remote, k)}
  /\ Abort
  /\ UNCHANGED <<config, dry_run, remote0, idx, local_key_set, actions,
                 uploaded, skipped, deleted, remote_keys, kidx, run, prev>>

NextFail == Next \/ HeadFails \/ PutFails \/ ListFails \/ DeleteFails

SpecFail == Init /\ [][NextFail]_vars

\* ------------------------------------------- a second invocation of main
NextRun ==
  /\ pc = "done"
  /\ run < MaxRuns
  /\ prev' = Some([dry_run |-> dry_run, actions |-> actions,
                   uploaded |-> uploaded, skipped |-> skipped,
                   deleted |-> deleted, remote0 |-> remote0])
  /\ run' = run + 1
  /\ dry_run' \in BOOLEAN
  /\ remote0' = remote
  /\ pc' = "scan"
  /\ idx' = 1
  /\ local_key_set' = {}
  /\ actions' = <<>>
  /\ uploaded' = 0
  /\ skipped' = 0
  /\ deleted' = 0
  /\ remote_keys' = <<>>
  /\ kidx' = 1
  /\ log' = <<>>
  /\ exit_code' = None
  /\ report' = None
  /\ UNCHANGED <<config, remote>>

NextTwo == Next \/ NextRun

SpecTwo == Init /\ [][NextTwo]_vars

\* ------------------------------------------------------------ properties
ActionIdx == 1..Len(actions)
UploadKeys == { actions[i].key : i \in { j \in ActionIdx : actions[j].action = "upload" } }
DeleteKeys == { actions[i].key : i \in { j \in ActionIdx : actions[j].action = "delete" } }
NumDeletes == Cardinality({ j \in ActionIdx : actions[j].action = "delete" })
NumUploads == Cardinality({ j \in ActionIdx : actions[j].action = "upload" })
ListedKeys == { remote_keys[i] : i \in 1..Len(remote_keys) }

\* a key is under the target prefix: any key for the empty prefix, else prefix "/" rest
UnderPrefix(k) ==
  \/ prefix = <<>>
  \/ /\ Len(k) > Len(prefix)
     /\ SubSeq(k, 1, Len(prefix)) = prefix
     /\ k[Len(prefix) + 1] = SLASH

Included(i) == ~is_excluded(local_files[i].rel, excludes)
KeyOf(i) == join_s3_key(prefix, local_files[i].rel)
NonExcludedKeys == { KeyOf(i) : i \in { j \in 1..Len(local_files) : Included(j) } }
SIBLING_KEY == <<"b", "2", "/", "a">>

\* C1: no key appears both in an upload action and in a delete action of a run.
C1_NoUploadAndDelete == UploadKeys \cap DeleteKeys = {}

\* a finished run that uploaded a key, listed it afterwards and also deleted something
C1_Witness ==
  /\ pc = "done"
  /\ delete
  /\ UploadKeys \cap ListedKeys # {}
  /\ DeleteKeys # {}

\* C2: with delete enabled the delete actions of a finished run are exactly the
\* remote keys under the prefix that are not keys of a non-excluded local file,
\* each once; keys outside the prefix (sibling prefixes included) are never
\* deleted; with delete disabled there is no delete action.
C2_DeleteSet ==
  pc = "done" =>
    IF delete
      THEN /\ DeleteKeys = { k \in DOMAIN remote0 : UnderPrefix(k) /\ k \notin NonExcludedKeys }
           /\ NumDeletes = Cardinality(DeleteKeys)
           /\ deleted = NumDeletes
      ELSE NumDeletes = 0 /\ deleted = 0

\* a finished delete-enabled run on prefix "b" with the sibling "b2/a" in the bucket
C2_Witness ==
  /\ pc = "done"
  /\ delete
  /\ prefix # <<>>
  /\ SIBLING_KEY \in DOMAIN remote0
  /\ DeleteKeys # {}

\* the reference rule of the upload/skip decision
RefUpload(f, r) ==
  IF r = None THEN TRUE
  ELSE IF strategy = "size-only" THEN The(r).size # f.size
  ELSE \/ The(r).size # f.size
       \/ The(r).mtime = None
       \/ The(The(r).mtime) # f.mtime

RefDecision(i) ==
  RefUpload(local_files[i], head_object_etag_size_mtime(remote0, KeyOf(i)))

Visited == { i \in 1..Len(local_files) : i < idx /\ Included(i) }

\* C3: for every non-excluded file already visited the decision is the reference
\* rule applied to the remote state of its key: an upload action and the uploaded
\* counter for Upload, the skipped counter and no action for Skip.
C3_Decision ==
  /\ \A i \in Visited : (KeyOf(i) \in UploadKeys) <=> RefDecision(i)
  /\ uploaded = Cardinality({ i \in Visited : RefDecision(i) })
  /\ skipped = Cardinality({ i \in Visited : ~RefDecision(i) })
  /\ NumUploads = uploaded

\* size-only skipped a file whose stored mtime is absent or differs from the local one
C3_Witness ==
  /\ pc = "done"
  /\ strategy = "size-only"
  /\ \E i \in Visited :
        /\ KeyOf(i) \in DOMAIN remote0
        /\ remote0[KeyOf(i)].meta # Some(Str(local_files[i].mtime))
        /\ KeyOf(i) \notin UploadKeys
  /\ skipped >= 1
  /\ uploaded >= 1

\* C4: a dry run issues no put and no delete and leaves the bucket as it found it.
C4_DryRunFrame ==
  dry_run =>
    /\ remote = remote0
    /\ \A i \in 1..Len(log) : log[i].op \notin {"put", "delete"}

\* a finished dry run that planned an upload and a delete
C4_Witness ==
  /\ pc = "done"
  /\ dry_run
  /\ UploadKeys # {}
  /\ DeleteKeys # {}

\* C6: no action of a run refers to the key of an excluded local file.
C6_ExcludedUntouched ==
  \A i \in 1..Len(local_files) :
    ~Included(i) => KeyOf(i) \notin (UploadKeys \cup DeleteKeys)

\* C8: the listing comes after every head and put of the run, no delete is issued
\* before a put, and the action list is the uploads in scan order followed by the
\* deletes in listing order.
ScanPos(k) == CHOOSE i \in 1..Len(local_files) : KeyOf(i) = k
ListPos(k) == CHOOSE i \in 1..Len(remote_keys) : remote_keys[i] = k
C8_Order ==
  /\ \A i, j \in 1..Len(log) :
        (log[i].op = "list" /\ log[j].op \in {"head", "put"}) => j < i
  /\ \A i, j \in 1..Len(log) :
        (log[i].op = "delete" /\ log[j].op \in {"put", "list"}) => j < i
  /\ \A i, j \in ActionIdx :
        i < j =>
          /\ ~(actions[i].action = "delete" /\ actions[j].action = "upload")
          /\ (actions[i].action = "upload" /\ actions[j].action = "upload")
               => ScanPos(actions[i].key) < ScanPos(actions[j].key)
          /\ (actions[i].action = "delete" /\ actions[j].action = "delete")
               => ListPos(actions[i].key) < ListPos(actions[j].key)
  /\ (delete /\ pc \in {"delete", "done"}) =>
        \E i \in 1..Len(log) : log[i].op = "list"

\* a finished live run with two uploads followed by two deletes
C8_Witness ==
  /\ pc = "done"
  /\ ~dry_run
  /\ NumUploads = 2
  /\ NumDeletes = 2

\* C10: after a finished live run with delete enabled the keys under the prefix
\* are exactly the keys of the non-excluded local files and every key outside
\* the prefix is as it was before the run.
C10_Mirror ==
  (pc = "done" /\ ~dry_run /\ delete) =>
    /\ { k \in DOMAIN remote : UnderPrefix(k) } = NonExcludedKeys
    /\ { k \in DOMAIN remote : ~UnderPrefix(k) } = { k \in DOMAIN remote0 : ~UnderPrefix(k) }
    /\ \A k \in DOMAIN remote : ~UnderPrefix(k) => remote[k] = remote0[k]

\* a finished live mirror run on prefix "b" that uploaded, deleted and kept the sibling
C10_Witness ==
  /\ pc = "done"
  /\ ~dry_run
  /\ delete
  /\ prefix # <<>>
  /\ SIBLING_KEY \in DOMAIN remote
  /\ UploadKeys # {}
  /\ DeleteKeys # {}

LastLog == log[Len(log)]

\* C7: a failed remote call is the last call of the run: the run is aborted with
\* a non-zero exit code and no report; what was put or deleted before stays put
\* or deleted; a not-found head is no failure and leads to an upload.
C7_AbortOnError ==
  /\ \A i \in 1..Len(log) :
        log[i].res = "error" =>
          /\ i = Len(log)
          /\ pc = "aborted"
          /\ exit_code # None /\ The(exit_code) # 0
          /\ report = None
  /\ pc = "aborted" => (Len(log) > 0 /\ LastLog.res = "error")
  /\ \A i \in 1..Len(log) :
        (log[i].op = "put" /\ log[i].res = "ok") =>
          /\ log[i].key \in DOMAIN remote
          /\ \E j \in 1..Len(local_files) :
                /\ KeyOf(j) = log[i].key
                /\ remote[log[i].key] = [size |-> local_files[j].size,
                                          meta |-> Some(Str(local_files[j].mtime))]
  /\ \A i \in 1..Len(log) :
        (log[i].op = "delete" /\ log[i].res = "ok") => log[i].key \notin DOMAIN remote
  /\ \A i \in 1..Len(log) :
        (log[i].op = "head" /\ log[i].res = "notfound") =>
          \/ log[i].key \in UploadKeys
          \/ LastLog = LogEntry("put", log[i].key, "error")

\* a live run that put an object and then aborted on a failing delete
C7_Witness ==
  /\ pc = "aborted"
  /\ LastLog.op = "delete"
  /\ \E i \in 1..Len(log) : log[i].op = "put" /\ log[i].res = "ok"

Plain(acts) ==
  [i \in 1..Len(acts) |->
     [action |-> acts[i].action, key |-> acts[i].key,
      local |-> IF acts[i].action = "upload" THEN acts[i].local ELSE <<>>]]

DryThenLive ==
  /\ prev # None
  /\ pc = "done"
  /\ The(prev).dry_run
  /\ ~dry_run
  /\ The(prev).remote0 = remote0

\* C5: a dry run and a live run from the same bucket and settings record the same
\* actions in the same order and the same counters; only the dry_run flags differ.
C5_DryLiveSame ==
  DryThenLive =>
    /\ Plain(actions) = Plain(The(prev).actions)
    /\ uploaded = The(prev).uploaded
    /\ skipped = The(prev).skipped
    /\ deleted = The(prev).deleted
    /\ \A i \in ActionIdx : ~actions[i].dry_run /\ The(prev).actions[i].dry_run

\* the live run listed a key it had just uploaded, and deleted another
C5_Witness ==
  /\ DryThenLive
  /\ UploadKeys \cap ListedKeys # {}
  /\ DeleteKeys # {}

\* C9: a run that follows a finished live run uploads nothing and, with delete
\* enabled, deletes nothing.
C9_Idempotent ==
  (prev # None /\ pc = "done" /\ ~The(prev).dry_run) =>
    /\ uploaded = 0
    /\ delete => deleted = 0
====
